---- MODULE Spec2Model ----
(***************************************************************************)
(* LocalStorageVec<T, N>: a growable list that lives in a fixed stack      *)
(* buffer of N slots while it is small (variant Stack) and is moved to a   *)
(* Vec (variant Heap) when it outgrows the buffer.                         *)
(*                                                                         *)
(* Every method is an operator from the container (and its arguments) to   *)
(* a record [self, out, ret]: the container after the call, whether the    *)
(* call returned ("ok") or panicked ("panic"), and the returned value as a *)
(* sequence (<<>> for unit / None, <<x>> for a value / Some(x), the        *)
(* elements for a slice).  A panicking call keeps the mutations it made    *)
(* before the panic.  Rust indices are 0-based; At and Set translate.      *)
(***************************************************************************)
EXTENDS Integers, Sequences, FiniteSets, TLC

\* ---- bounds ----
MaxN == 3              \* largest inline capacity N explored
MaxVal == 1            \* element values are 0..MaxVal
MaxLen == MaxN + 1     \* longest Vec / input array explored
MaxIdx == MaxLen       \* largest index argument explored

\* T, with T::default() = 0
T == 0..MaxVal
Default == 0

\* usize arithmetic: the model keeps 31 bits; the only wrapped value is a
\* loop bound that is never reached (the buffer index panics first).
UsizeMax == 2147483647
WrappingSub(a, b) == IF a >= b THEN a - b ELSE UsizeMax - (b - a) + 1

At(s, i) == s[i + 1]
Set(s, i, x) == [s EXCEPT ![i + 1] = x]
Arrays(n) == UNION {[1..k -> T] : k \in 0..n}

Stack(b, l) == [variant |-> "Stack", buf |-> b, len |-> l, v |-> <<>>]
Heap(vv) == [variant |-> "Heap", buf |-> <<>>, len |-> 0, v |-> vv]
Ok(s, r) == [self |-> s, out |-> "ok", ret |-> r]
Panic(s) == [self |-> s, out |-> "panic", ret |-> <<>>]

\* ---- slices and Vec (std) ----
\* s[start..end] on a slice
SliceRange(s, start, end) ==
    IF start > end \/ end > Len(s) THEN [out |-> "panic", ret |-> <<>>]
    ELSE [out |-> "ok", ret |-> SubSeq(s, start + 1, end)]

VecInsert(vv, index, value) ==
    SubSeq(vv, 1, index) \o <<value>> \o SubSeq(vv, index + 1, Len(vv))
VecRemove(vv, index) ==
    SubSeq(vv, 1, index) \o SubSeq(vv, index + 2, Len(vv))

\* ---- constructors ----
new(n) == Stack([i \in 1..n |-> Default], 0)

\* from that sends an array of exactly m elements to the heap
from_array_full_goes_to_heap(array, m) ==
    IF Len(array) < m
    THEN Stack([i \in 1..m |-> IF i <= Len(array) THEN array[i] ELSE Default],
               Len(array))
    ELSE Heap(array)

from_array(array, m) ==
    IF Len(array) <= m
    THEN Stack([i \in 1..m |-> IF i <= Len(array) THEN array[i] ELSE Default],
               Len(array))
    ELSE Heap(array)

from_vec(array) == Heap(array)

\* ---- read accessors ----
as_ref(self) ==
    IF self.variant = "Stack" THEN SubSeq(self.buf, 1, self.len) ELSE self.v

len(self) ==
    IF self.variant = "Stack" THEN self.len ELSE Len(self.v)

\* ---- push ----
push_Heap(self, value) == Ok(Heap(Append(self.v, value)), <<>>)

\* push that spills one element early, when the value would fill the buffer
push_spills_early(self, value) ==
    IF self.variant = "Stack"
    THEN IF self.len + 1 < Len(self.buf)
         THEN Ok(Stack(Set(self.buf, self.len, value), self.len + 1), <<>>)
         ELSE push_Heap(Heap(self.buf), value)
    ELSE push_Heap(self, value)

\* push that spills without appending the value afterwards
push_spill_drops_value(self, value) ==
    IF self.variant = "Stack"
    THEN IF self.len < Len(self.buf)
         THEN Ok(Stack(Set(self.buf, self.len, value), self.len + 1), <<>>)
         ELSE Ok(Heap(self.buf), <<>>)
    ELSE push_Heap(self, value)

push(self, value) ==
    IF self.variant = "Stack"
    THEN IF self.len < Len(self.buf)
         THEN Ok(Stack(Set(self.buf, self.len, value), self.len + 1), <<>>)
         ELSE push_Heap(Heap(self.buf), value)
    ELSE push_Heap(self, value)

\* ---- pop ----
\* pop whose Heap arm takes the first element instead of the last
pop_heap_takes_front(self) ==
    IF self.variant = "Stack"
    THEN IF self.len = 0
         THEN Ok(self, <<>>)
         ELSE Ok(Stack(self.buf, self.len - 1), <<At(self.buf, self.len - 1)>>)
    ELSE IF Len(self.v) = 0
         THEN Ok(self, <<>>)
         ELSE Ok(Heap(Tail(self.v)), <<Head(self.v)>>)

\* pop whose Stack arm returns the last element without decrementing len
pop_stack_keeps_len(self) ==
    IF self.variant = "Stack"
    THEN IF self.len = 0
         THEN Ok(self, <<>>)
         ELSE Ok(self, <<At(self.buf, self.len - 1)>>)
    ELSE IF Len(self.v) = 0
         THEN Ok(self, <<>>)
         ELSE Ok(Heap(SubSeq(self.v, 1, Len(self.v) - 1)),
                 <<self.v[Len(self.v)]>>)

pop(self) ==
    IF self.variant = "Stack"
    THEN IF self.len = 0
         THEN Ok(self, <<>>)
         ELSE Ok(Stack(self.buf, self.len - 1), <<At(self.buf, self.len - 1)>>)
    ELSE IF Len(self.v) = 0
         THEN Ok(self, <<>>)
         ELSE Ok(Heap(SubSeq(self.v, 1, Len(self.v) - 1)),
                 <<self.v[Len(self.v)]>>)

\* ---- clear ----
\* clear whose Heap arm leaves the Vec as it is
clear_heap_untouched(self) ==
    IF self.variant = "Stack"
    THEN Ok(Stack(self.buf, 0), <<>>)
    ELSE Ok(self, <<>>)

clear(self) ==
    IF self.variant = "Stack"
    THEN Ok(Stack(self.buf, 0), <<>>)
    ELSE Ok(Heap(<<>>), <<>>)

\* ---- insert ----
\* insert shift loop that stops one slot short of the new last slot
\* (as if len had not been incremented yet): the last element is not moved
insert_shift_misses_last(buf, i, index) ==
    IF index = 0 \/ i >= Len(buf) THEN [buf |-> buf, out |-> "panic"]
    ELSE [buf |-> [j \in 1..Len(buf) |->
                     IF j - 1 >= index /\ j - 1 <= i - 1
                     THEN buf[j - 1] ELSE buf[j]],
          out |-> "ok"]

\* for i in (index..len).rev() { buf[i] = buf[i - 1].clone(); }
\* i - 1 with i = 0 panics (overflow check, or index usize::MAX out of
\* bounds when the subtraction wraps): no build gets past it.
RECURSIVE insert_shift(_, _, _)
insert_shift(buf, i, index) ==
    IF i < index THEN [buf |-> buf, out |-> "ok"]
    ELSE IF i = 0 \/ i >= Len(buf) THEN [buf |-> buf, out |-> "panic"]
    ELSE insert_shift(Set(buf, i, At(buf, i - 1)), i - 1, index)

insert_Heap(self, index, value) ==
    IF index > Len(self.v) THEN Panic(self)
    ELSE Ok(Heap(VecInsert(self.v, index, value)), <<>>)

\* insert that takes the in-place branch also when the buffer is full
insert_full_in_place(self, index, value) ==
    IF self.variant = "Stack"
    THEN LET len1 == self.len + 1
             sh == insert_shift(self.buf, len1 - 1, index)
         IN  IF sh.out = "panic" THEN Panic(Stack(sh.buf, len1))
             ELSE IF index >= Len(sh.buf) THEN Panic(Stack(sh.buf, len1))
             ELSE Ok(Stack(Set(sh.buf, index, value), len1), <<>>)
    ELSE insert_Heap(self, index, value)

\* insert that appends the value after spilling instead of inserting it
insert_spill_appends(self, index, value) ==
    IF self.variant = "Stack"
    THEN IF self.len < Len(self.buf)
         THEN LET len1 == self.len + 1
                  sh == insert_shift(self.buf, len1 - 1, index)
              IN  IF sh.out = "panic" THEN Panic(Stack(sh.buf, len1))
                  ELSE IF index >= Len(sh.buf) THEN Panic(Stack(sh.buf, len1))
                  ELSE Ok(Stack(Set(sh.buf, index, value), len1), <<>>)
         ELSE push_Heap(Heap(self.buf), value)
    ELSE insert_Heap(self, index, value)

insert(self, index, value) ==
    IF self.variant = "Stack"
    THEN IF self.len < Len(self.buf)
         THEN LET len1 == self.len + 1
                  sh == insert_shift(self.buf, len1 - 1, index)
              IN  IF sh.out = "panic" THEN Panic(Stack(sh.buf, len1))
                  ELSE IF index >= Len(sh.buf) THEN Panic(Stack(sh.buf, len1))
                  ELSE Ok(Stack(Set(sh.buf, index, value), len1), <<>>)
         ELSE insert_Heap(Heap(self.buf), index, value)
    ELSE insert_Heap(self, index, value)

\* ---- remove ----
\* remove shift loop that starts one slot too far and keeps the removed element
remove_shift_skips_first(buf, i, upper) ==
    [buf |-> [j \in 1..Len(buf) |->
                IF j - 1 > i /\ j - 1 < upper /\ j < Len(buf)
                THEN buf[j + 1] ELSE buf[j]],
     out |-> "ok"]

\* for i in index..upper { buf[i] = buf[i + 1].clone(); }
RECURSIVE remove_shift(_, _, _)
remove_shift(buf, i, upper) ==
    IF i >= upper THEN [buf |-> buf, out |-> "ok"]
    ELSE IF i + 1 >= Len(buf) THEN [buf |-> buf, out |-> "panic"]
    ELSE remove_shift(Set(buf, i, At(buf, i + 1)), i + 1, upper)

\* overflow_checks: whether the build panics on integer overflow (debug
\* profile) or wraps (release profile); it decides what `*len - 1` does
\* when len is 0.
remove(self, index, overflow_checks) ==
    IF self.variant = "Stack"
    THEN IF index >= Len(self.buf) THEN Panic(self)
         ELSE LET value == At(self.buf, index) IN
              IF self.len = 0 /\ overflow_checks THEN Panic(self)
              ELSE LET sh == remove_shift(self.buf, index,
                                          WrappingSub(self.len, 1))
                   IN  IF sh.out = "panic" THEN Panic(Stack(sh.buf, self.len))
                       ELSE Ok(Stack(sh.buf, self.len - 1), <<value>>)
    ELSE IF index >= Len(self.v) THEN Panic(self)
         ELSE Ok(Heap(VecRemove(self.v, index)), <<At(self.v, index)>>)

\* ---- Index ----
index_usize(self, index) ==
    LET s == IF self.variant = "Stack" THEN self.buf ELSE self.v
    IN  IF index >= Len(s) THEN Panic(self) ELSE Ok(self, <<At(s, index)>>)

index_range_to(self, end) ==
    LET s == IF self.variant = "Stack" THEN self.buf ELSE self.v
        r == SliceRange(s, 0, end)
    IN  [self |-> self, out |-> r.out, ret |-> r.ret]

index_range(self, start, end) ==
    LET s == IF self.variant = "Stack" THEN self.buf ELSE self.v
        r == SliceRange(s, start, end)
    IN  [self |-> self, out |-> r.out, ret |-> r.ret]

\* RangeFrom whose Stack arm runs to the end of the buffer
index_range_from_to_capacity(self, start) ==
    LET r == IF self.variant = "Stack"
             THEN SliceRange(self.buf, start, Len(self.buf))
             ELSE SliceRange(self.v, start, Len(self.v))
    IN  [self |-> self, out |-> r.out, ret |-> r.ret]

index_range_from(self, start) ==
    LET r == IF self.variant = "Stack"
             THEN SliceRange(self.buf, start, self.len)
             ELSE SliceRange(self.v, start, Len(self.v))
    IN  [self |-> self, out |-> r.out, ret |-> r.ret]

\* ---- into_iter ----
\* into_iter that iterates the whole buffer instead of its first len slots
into_iter_whole_buffer(self) ==
    IF self.variant = "Stack"
    THEN Ok(self, self.buf)
    ELSE Ok(self, self.v)

\* the returned std::vec::IntoIter is the sequence of elements it yields
into_iter(self) ==
    IF self.variant = "Stack"
    THEN Ok(self, SubSeq(self.buf, 1, self.len))
    ELSE Ok(self, self.v)

\* ---- the program: one container, called by its owner ----
VARIABLES
    N,                \* the const generic N of the container's type
    overflow_checks,  \* build profile
    vec,              \* the container
    pre,              \* the container before the last call
    call,             \* the last call: op, arguments, outcome, returned value
    pushes,           \* k if the container was made by new() and has seen
                      \* exactly k push calls and nothing else since; else -1
    input,            \* the array or Vec a constructor call was given
    run,              \* the values pushed and the results of the pops that
                      \* followed, while the container made by new() has
                      \* seen pushes and then pops only
    twin,             \* a second container, of another inline capacity,
                      \* that is given the same calls as vec (SpecTwin)
    twin_call         \* the last call on twin and its result

vars == <<N, overflow_checks, vec, pre, call, pushes, input, run,
          twin, twin_call>>

NoRun == [live |-> FALSE, pushed |-> <<>>, popped |-> <<>>]
NewRun == [live |-> TRUE, pushed |-> <<>>, popped |-> <<>>]

Call(op, index, end, value, r) ==
    [op |-> op, index |-> index, end |-> end, value |-> value,
     out |-> r.out, ret |-> r.ret]

\* Spec has one container only
NoTwin == new(0)
NoTwinCall == Call("none", 0, 0, 0, Ok(NoTwin, <<>>))

\* The owner constructs the container with new(), from an array or from a Vec
Constructed(s, op, k) ==
    /\ vec = s
    /\ pre = s
    /\ call = Call(op, 0, 0, 0, Ok(s, <<>>))
    /\ pushes = k

\* construction in which From<Vec<T>> places a Vec that fits in the buffer
Init_from_vec_inlines ==
    /\ N \in 0..MaxN
    /\ overflow_checks \in BOOLEAN
    /\ twin = NoTwin
    /\ twin_call = NoTwinCall
    /\ \/ /\ Constructed(new(N), "new", 0)
          /\ input = <<>>
          /\ run = NewRun
       \/ \E array \in Arrays(MaxLen) :
            /\ Constructed(from_array(array, N), "from_array", -1)
            /\ input = array
            /\ run = NoRun
       \/ \E array \in Arrays(MaxLen) :
            /\ Constructed(from_array(array, N), "from_vec", -1)
            /\ input = array
            /\ run = NoRun

Init ==
    /\ N \in 0..MaxN
    /\ overflow_checks \in BOOLEAN
    /\ twin = NoTwin
    /\ twin_call = NoTwinCall
    /\ \/ /\ Constructed(new(N), "new", 0)
          /\ input = <<>>
          /\ run = NewRun
       \/ \E array \in Arrays(MaxLen) :
            /\ Constructed(from_array(array, N), "from_array", -1)
            /\ input = array
            /\ run = NoRun
       \/ \E array \in Arrays(MaxLen) :
            /\ Constructed(from_vec(array), "from_vec", -1)
            /\ input = array
            /\ run = NoRun

\* The owner makes one call at a time: `call` holds the last call and its
\* result until the owner's statement ends (a returned reference borrows
\* the container until then), and the next call starts from there.
Idle == call.op = "none"

\* into_iter(self) takes the container by value: the owner has none left
Consumed == call.op = "into_iter"

StatementEnds ==
    /\ ~Idle
    /\ ~Consumed
    /\ call' = Call("none", 0, 0, 0, Ok(vec, <<>>))
    /\ pre' = vec
    /\ input' = <<>>
    /\ UNCHANGED <<twin, twin_call, N, overflow_checks, vec, pushes, run>>

\* Fits(r): the Vec stays within the explored length
Fits(r) == len(r.self) <= MaxLen

Push == \E value \in T :
    LET r == push(vec, value) IN
    /\ Idle
    /\ Fits(r)
    /\ vec' = r.self
    /\ pre' = vec
    /\ call' = Call("push", 0, 0, value, r)
    /\ pushes' = IF pushes >= 0 THEN pushes + 1 ELSE -1
    /\ run' = IF run.live /\ run.popped = <<>>
              THEN [run EXCEPT !.pushed = Append(@, value)]
              ELSE NoRun
    /\ UNCHANGED <<twin, twin_call, N, overflow_checks, input>>

Pop ==
    LET r == pop(vec) IN
    /\ Idle
    /\ vec' = r.self
    /\ pre' = vec
    /\ call' = Call("pop", 0, 0, 0, r)
    /\ pushes' = -1
    /\ run' = IF run.live /\ Len(run.popped) <= Len(run.pushed)
              THEN [run EXCEPT !.popped = Append(@, r.ret)]
              ELSE NoRun
    /\ UNCHANGED <<twin, twin_call, N, overflow_checks, input>>

Insert == \E index \in 0..MaxIdx, value \in T :
    LET r == insert(vec, index, value) IN
    /\ Idle
    /\ Fits(r)
    /\ vec' = r.self
    /\ pre' = vec
    /\ call' = Call("insert", index, 0, value, r)
    /\ pushes' = -1
    /\ run' = NoRun
    /\ UNCHANGED <<twin, twin_call, N, overflow_checks, input>>

Remove == \E index \in 0..MaxIdx :
    LET r == remove(vec, index, overflow_checks) IN
    /\ Idle
    /\ vec' = r.self
    /\ pre' = vec
    /\ call' = Call("remove", index, 0, 0, r)
    /\ pushes' = -1
    /\ run' = NoRun
    /\ UNCHANGED <<twin, twin_call, N, overflow_checks, input>>

\* clear that replaces the container by a fresh new()
Clear_resets_to_new ==
    LET r == Ok(new(N), <<>>) IN
    /\ Idle
    /\ vec' = r.self
    /\ pre' = vec
    /\ call' = Call("clear", 0, 0, 0, r)
    /\ pushes' = -1
    /\ run' = NoRun
    /\ UNCHANGED <<twin, twin_call, N, overflow_checks, input>>

Clear ==
    LET r == clear(vec) IN
    /\ Idle
    /\ vec' = r.self
    /\ pre' = vec
    /\ call' = Call("clear", 0, 0, 0, r)
    /\ pushes' = -1
    /\ run' = NoRun
    /\ UNCHANGED <<twin, twin_call, N, overflow_checks, input>>

IndexUsize == \E index \in 0..MaxIdx :
    LET r == index_usize(vec, index) IN
    /\ Idle
    /\ vec' = r.self
    /\ pre' = vec
    /\ call' = Call("index", index, 0, 0, r)
    /\ UNCHANGED <<twin, twin_call, N, overflow_checks, pushes, input, run>>

IndexRangeTo == \E end \in 0..MaxIdx :
    LET r == index_range_to(vec, end) IN
    /\ Idle
    /\ vec' = r.self
    /\ pre' = vec
    /\ call' = Call("index_range_to", 0, end, 0, r)
    /\ UNCHANGED <<twin, twin_call, N, overflow_checks, pushes, input, run>>

IndexRange == \E start \in 0..MaxIdx, end \in 0..MaxIdx :
    LET r == index_range(vec, start, end) IN
    /\ Idle
    /\ vec' = r.self
    /\ pre' = vec
    /\ call' = Call("index_range", start, end, 0, r)
    /\ UNCHANGED <<twin, twin_call, N, overflow_checks, pushes, input, run>>

IndexRangeFrom == \E start \in 0..MaxIdx :
    LET r == index_range_from(vec, start) IN
    /\ Idle
    /\ vec' = r.self
    /\ pre' = vec
    /\ call' = Call("index_range_from", start, 0, 0, r)
    /\ UNCHANGED <<twin, twin_call, N, overflow_checks, pushes, input, run>>

IntoIter ==
    LET r == into_iter(vec) IN
    /\ Idle
    /\ vec' = r.self
    /\ pre' = vec
    /\ call' = Call("into_iter", 0, 0, 0, r)
    /\ UNCHANGED <<twin, twin_call, N, overflow_checks, pushes, input, run>>

Next ==
    \/ StatementEnds
    \/ Push
    \/ Pop
    \/ Insert
    \/ Remove
    \/ Clear
    \/ IndexUsize
    \/ IndexRangeTo
    \/ IndexRange
    \/ IndexRangeFrom
    \/ IntoIter

Spec == Init /\ [][Next]_vars

\* ---- two containers of different inline capacities, same calls ----
InitTwin ==
    /\ N \in 0..MaxN
    /\ overflow_checks \in BOOLEAN
    /\ Constructed(new(N), "new", 0)
    /\ input = <<>>
    /\ run = NewRun
    /\ \E m \in (0..MaxN) \ {N} :
         /\ twin = new(m)
         /\ twin_call = Call("new", 0, 0, 0, Ok(twin, <<>>))

\* a call that panicked ends the owner's sequence of calls
TwinGoing == call.out = "ok" /\ twin_call.out = "ok"

TwinPush == \E value \in T :
    LET r == push(vec, value)
        t == push(twin, value) IN
    /\ TwinGoing
    /\ Fits(r) /\ Fits(t)
    /\ vec' = r.self
    /\ twin' = t.self
    /\ pre' = vec
    /\ call' = Call("push", 0, 0, value, r)
    /\ twin_call' = Call("push", 0, 0, value, t)
    /\ UNCHANGED <<N, overflow_checks, pushes, input, run>>

TwinPop ==
    LET r == pop(vec)
        t == pop(twin) IN
    /\ TwinGoing
    /\ vec' = r.self
    /\ twin' = t.self
    /\ pre' = vec
    /\ call' = Call("pop", 0, 0, 0, r)
    /\ twin_call' = Call("pop", 0, 0, 0, t)
    /\ UNCHANGED <<N, overflow_checks, pushes, input, run>>

\* in contract: index <= len()
TwinInsert == \E index \in 0..MaxIdx, value \in T :
    LET r == insert(vec, index, value)
        t == insert(twin, index, value) IN
    /\ TwinGoing
    /\ index <= len(vec) /\ index <= len(twin)
    /\ Fits(r) /\ Fits(t)
    /\ vec' = r.self
    /\ twin' = t.self
    /\ pre' = vec
    /\ call' = Call("insert", index, 0, value, r)
    /\ twin_call' = Call("insert", index, 0, value, t)
    /\ UNCHANGED <<N, overflow_checks, pushes, input, run>>

\* in contract: index < len()
TwinRemove == \E index \in 0..MaxIdx :
    LET r == remove(vec, index, overflow_checks)
        t == remove(twin, index, overflow_checks) IN
    /\ TwinGoing
    /\ index < len(vec) /\ index < len(twin)
    /\ vec' = r.self
    /\ twin' = t.self
    /\ pre' = vec
    /\ call' = Call("remove", index, 0, 0, r)
    /\ twin_call' = Call("remove", index, 0, 0, t)
    /\ UNCHANGED <<N, overflow_checks, pushes, input, run>>

TwinClear ==
    LET r == clear(vec)
        t == clear(twin) IN
    /\ TwinGoing
    /\ vec' = r.self
    /\ twin' = t.self
    /\ pre' = vec
    /\ call' = Call("clear", 0, 0, 0, r)
    /\ twin_call' = Call("clear", 0, 0, 0, t)
    /\ UNCHANGED <<N, overflow_checks, pushes, input, run>>

NextTwin ==
    \/ TwinPush
    \/ TwinPop
    \/ TwinInsert
    \/ TwinRemove
    \/ TwinClear

SpecTwin == InitTwin /\ [][NextTwin]_vars

TypeOK ==
    /\ N \in 0..MaxN
    /\ vec.variant \in {"Stack", "Heap"}
    /\ call.out \in {"ok", "panic"}

(***************************************************************************)
(* Properties                                                              *)
(***************************************************************************)

\* C1: from new(), after k push calls len() is k, and the container is in
\* the Stack variant iff k <= N (N = 0 included), else in the Heap variant.
C1_PushCountAndVariant ==
    pushes >= 0 =>
        /\ len(vec) = pushes
        /\ (vec.variant = "Stack" <=> pushes <= N)
        /\ (vec.variant = "Heap" <=> pushes > N)

C1_Witness ==
    /\ call.op = "push"
    /\ pushes = N + 1
    /\ vec.variant = "Heap"

\* C2: a container in the Heap variant stays in the Heap variant under
\* every call (push, pop, insert, remove, clear).
C2_SpillIsOneWay ==
    [][vec.variant = "Heap" => vec'.variant = "Heap"]_vars

\* a Heap container re-populated below the inline capacity after a clear
C2_Witness ==
    /\ N >= 2
    /\ pre.variant = "Heap"
    /\ len(pre) = 0
    /\ call.op = "push"
    /\ vec.variant = "Heap"
    /\ len(vec) = 1

\* C3: a container in the Stack variant has len <= N in every reachable
\* state, calls that panic included.
C3_InlineLenBound ==
    vec.variant = "Stack" => /\ vec.len <= N
                             /\ Len(vec.buf) = N

\* a panicking insert has left a Stack container at len = N
C3_Witness ==
    /\ vec.variant = "Stack"
    /\ call.op = "insert"
    /\ call.out = "panic"
    /\ vec.len = N
    /\ N >= 1

\* C4: on a Stack container with 1 <= len < N, insert(0, x) completes and
\* yields x followed by the previous elements, len increased by one.
C4_InsertFront ==
    (/\ call.op = "insert"
     /\ call.index = 0
     /\ pre.variant = "Stack"
     /\ 1 <= pre.len
     /\ pre.len < N)
    => /\ call.out = "ok"
       /\ as_ref(vec) = <<call.value>> \o as_ref(pre)
       /\ len(vec) = len(pre) + 1

\* C5: insert(len(), v) behaves as push(v) does on the same container:
\* same outcome, same variant, same len(), same as_ref().
C5_InsertAtLenIsPush ==
    (call.op = "insert" /\ call.index = len(pre))
    => LET p == push(pre, call.value)
       IN  /\ call.out = p.out
           /\ vec.variant = p.self.variant
           /\ len(vec) = len(p.self)
           /\ as_ref(vec) = as_ref(p.self)

\* C6: remove(index) with index >= len() panics and leaves as_ref() and
\* len() unchanged.
C6_RemoveOutOfBounds ==
    (call.op = "remove" /\ call.index >= len(pre))
    => /\ call.out = "panic"
       /\ as_ref(vec) = as_ref(pre)
       /\ len(vec) = len(pre)

\* C7: indexing with an index >= len(), or with a range ..end, start.. or
\* start..end whose bound exceeds len(), panics.
C7_IndexOutOfBounds ==
    (\/ call.op = "index" /\ call.index >= len(pre)
     \/ call.op = "index_range_to" /\ call.end > len(pre)
     \/ call.op = "index_range_from" /\ call.index > len(pre)
     \/ call.op = "index_range" /\ (call.index > len(pre) \/ call.end > len(pre)))
    => call.out = "panic"

\* C8: insert(index, value) with index > len() panics and leaves the
\* container unchanged (same variant, same len(), same as_ref()).
C8_InsertOutOfBounds ==
    (call.op = "insert" /\ call.index > len(pre))
    => /\ call.out = "panic"
       /\ vec.variant = pre.variant
       /\ len(vec) = len(pre)
       /\ as_ref(vec) = as_ref(pre)

\* C9: a push on a Stack container with len = N returns, leaves the Heap
\* variant, and as_ref() is the N previous elements followed by the value.
C9_PushSpills ==
    (call.op = "push" /\ pre.variant = "Stack" /\ pre.len = N)
    => /\ call.out = "ok"
       /\ vec.variant = "Heap"
       /\ as_ref(vec) = as_ref(pre) \o <<call.value>>

C9_Witness ==
    /\ call.op = "push"
    /\ call.out = "ok"
    /\ pre.variant = "Stack"
    /\ pre.len = N
    /\ N >= 2
    /\ At(pre.buf, 0) # At(pre.buf, 1)
    /\ vec.variant = "Heap"

\* C10: on a Stack container with len = N, insert(index, v) with
\* index <= N leaves the Heap variant holding N + 1 elements: the previous
\* ones below index, v at index, the previous ones from index on one
\* position further.
C10_InsertSpills ==
    (/\ call.op = "insert"
     /\ pre.variant = "Stack"
     /\ pre.len = N
     /\ call.index <= N)
    => /\ call.out = "ok"
       /\ vec.variant = "Heap"
       /\ len(vec) = N + 1
       /\ \A j \in 0..N :
            At(as_ref(vec), j) =
                IF j < call.index THEN At(as_ref(pre), j)
                ELSE IF j = call.index THEN call.value
                ELSE At(as_ref(pre), j - 1)

C10_Witness ==
    /\ call.op = "insert"
    /\ call.out = "ok"
    /\ pre.variant = "Stack"
    /\ pre.len = N
    /\ N >= 2
    /\ call.index = 1
    /\ At(pre.buf, 0) # At(pre.buf, 1)
    /\ vec.variant = "Heap"

\* C11: from new(), N + 1 pushes followed by N + 1 pops return the pushed
\* values in reverse push order, and the next pop returns None.
C11_PushThenPopReverses ==
    (run.live /\ Len(run.pushed) = N + 1)
    => /\ \A j \in 1..Len(run.popped) :
            run.popped[j] = IF j <= N + 1 THEN <<run.pushed[N + 2 - j]>>
                            ELSE <<>>
       /\ (call.op = "pop" => call.out = "ok")

C11_Witness ==
    /\ run.live
    /\ N >= 1
    /\ Len(run.pushed) = N + 1
    /\ Len(run.popped) = N + 2
    /\ run.pushed[1] # run.pushed[2]
    /\ call.op = "pop"
    /\ call.ret = <<>>

\* C12: pop() with len() = 0 returns None and leaves the container as it
\* was; pop() with len() > 0 returns the last element of as_ref(), leaves
\* as_ref() without its last element and keeps the variant.
C12_Pop ==
    call.op = "pop" =>
        /\ call.out = "ok"
        /\ vec.variant = pre.variant
        /\ IF len(pre) = 0
           THEN call.ret = <<>> /\ vec = pre
           ELSE /\ call.ret = <<as_ref(pre)[len(pre)]>>
                /\ len(vec) = len(pre) - 1
                /\ \A j \in 1..len(vec) : as_ref(vec)[j] = as_ref(pre)[j]

\* a pop on a Stack container holding two different elements
C12_Witness ==
    /\ call.op = "pop"
    /\ pre.variant = "Stack"
    /\ pre.len >= 2
    /\ At(pre.buf, 0) # At(pre.buf, 1)
    /\ vec.len = pre.len - 1

\* C13: remove(index) with index < len() returns the element that was at
\* index, leaves as_ref() without exactly that element, the others in
\* order, and keeps the variant (Heap stays Heap also when len <= N).
C13_Remove ==
    (call.op = "remove" /\ call.index < len(pre))
    => /\ call.out = "ok"
       /\ call.ret = <<At(as_ref(pre), call.index)>>
       /\ vec.variant = pre.variant
       /\ len(vec) = len(pre) - 1
       /\ \A j \in 0..(len(vec) - 1) :
            At(as_ref(vec), j) = IF j < call.index THEN At(as_ref(pre), j)
                                 ELSE At(as_ref(pre), j + 1)

\* a remove below the last element of a Stack container
C13_Witness ==
    /\ call.op = "remove"
    /\ call.out = "ok"
    /\ pre.variant = "Stack"
    /\ pre.len >= 3
    /\ call.index = 1
    /\ At(pre.buf, 1) # At(pre.buf, 2)

\* C14: on a Stack container with len < N, insert(index, v) with
\* 0 < index < len keeps the Stack variant, increments len, and the first
\* len + 1 slots are the previous elements with v at index and the
\* elements from index on one slot further.
C14_InsertInterior ==
    (/\ call.op = "insert"
     /\ pre.variant = "Stack"
     /\ pre.len < N
     /\ 0 < call.index
     /\ call.index < pre.len)
    => /\ call.out = "ok"
       /\ vec.variant = "Stack"
       /\ vec.len = pre.len + 1
       /\ \A j \in 0..pre.len :
            At(vec.buf, j) = IF j < call.index THEN At(pre.buf, j)
                             ELSE IF j = call.index THEN call.value
                             ELSE At(pre.buf, j - 1)

C14_Witness ==
    /\ call.op = "insert"
    /\ call.out = "ok"
    /\ pre.variant = "Stack"
    /\ pre.len = 2
    /\ N >= 3
    /\ call.index = 1
    /\ At(pre.buf, 0) # At(pre.buf, 1)
    /\ vec.variant = "Stack"
    /\ vec.len = 3

\* C15: from([T; K]) yields, when K <= N, the Stack variant with len = K
\* and, when K > N, the Heap variant; in both cases len() = K and as_ref()
\* is the input in order.
C15_FromArray ==
    call.op = "from_array" =>
        /\ len(vec) = Len(input)
        /\ as_ref(vec) = input
        /\ (Len(input) <= N => vec.variant = "Stack" /\ vec.len = Len(input))
        /\ (Len(input) > N => vec.variant = "Heap")

\* an array that exactly fills the buffer
C15_Witness ==
    /\ call.op = "from_array"
    /\ N >= 2
    /\ Len(input) = N
    /\ input[1] # input[2]
    /\ vec.variant = "Stack"

\* C16: from(Vec) yields the Heap variant for every input length, the
\* lengths <= N and 0 included, with as_ref() equal to the input.
C16_FromVec ==
    call.op = "from_vec" =>
        /\ vec.variant = "Heap"
        /\ as_ref(vec) = input
        /\ len(vec) = Len(input)

\* a Vec that would fit in the buffer
C16_Witness ==
    /\ call.op = "from_vec"
    /\ Len(input) >= 1
    /\ Len(input) <= N
    /\ vec.variant = "Heap"

\* C17: clear() leaves len() = 0 and as_ref() empty and keeps the variant.
C17_Clear ==
    call.op = "clear" =>
        /\ call.out = "ok"
        /\ len(vec) = 0
        /\ as_ref(vec) = <<>>
        /\ vec.variant = pre.variant

C17_Witness ==
    /\ call.op = "clear"
    /\ pre.variant = "Heap"
    /\ len(pre) >= 2
    /\ len(pre) <= N
    /\ vec.variant = "Heap"

\* C18: into_iter() yields exactly len() elements, equal to as_ref() in
\* order, also when slots beyond len hold stale values.
C18_IntoIter ==
    call.op = "into_iter" =>
        /\ call.out = "ok"
        /\ Len(call.ret) = len(pre)
        /\ call.ret = as_ref(pre)

\* a Stack container with a stale value beyond len is iterated
C18_Witness ==
    /\ call.op = "into_iter"
    /\ pre.variant = "Stack"
    /\ pre.len >= 1
    /\ pre.len < N
    /\ At(pre.buf, pre.len) # Default

\* C19: for i < len() and 0 <= s <= e <= len(), vec[i], vec[..e], vec[s..]
\* and vec[s..e] return what as_ref()[i], as_ref()[..e], as_ref()[s..] and
\* as_ref()[s..e] are.
C19_IndexInBounds ==
    /\ (call.op = "index" /\ call.index < len(pre))
       => /\ call.out = "ok"
          /\ call.ret = <<At(as_ref(pre), call.index)>>
    /\ (call.op = "index_range_to" /\ call.end <= len(pre))
       => /\ call.out = "ok"
          /\ call.ret = SubSeq(as_ref(pre), 1, call.end)
    /\ (call.op = "index_range_from" /\ call.index <= len(pre))
       => /\ call.out = "ok"
          /\ call.ret = SubSeq(as_ref(pre), call.index + 1, len(pre))
    /\ (call.op = "index_range" /\ call.index <= call.end
                                /\ call.end <= len(pre))
       => /\ call.out = "ok"
          /\ call.ret = SubSeq(as_ref(pre), call.index + 1, call.end)

\* vec[s..] on a Stack container that has slots beyond len
C19_Witness ==
    /\ call.op = "index_range_from"
    /\ call.out = "ok"
    /\ pre.variant = "Stack"
    /\ pre.len >= 2
    /\ pre.len < N
    /\ call.index = 1

\* C20: the variant changes only in a push or insert call made on a Stack
\* container with len = N; no other call, and no push or insert with
\* len < N, changes it.
C20_VariantChangesOnlyAtCapacity ==
    [][vec'.variant # vec.variant
        => /\ call'.op \in {"push", "insert"}
           /\ vec.variant = "Stack"
           /\ vec.len = N
           /\ vec'.variant = "Heap"]_vars

\* an insert on a full Stack container spilled and then panicked
C20_Witness ==
    /\ call.op = "insert"
    /\ call.out = "panic"
    /\ pre.variant = "Stack"
    /\ pre.len = N
    /\ N >= 1
    /\ vec.variant = "Heap"

\* C21: two containers of different inline capacities, given the same
\* in-contract calls from empty, agree after every call: both calls
\* return, with the same value, and as_ref() and len() are equal.
C21_VariantNotObservable ==
    /\ call.out = "ok"
    /\ twin_call.out = "ok"
    /\ call.ret = twin_call.ret
    /\ as_ref(vec) = as_ref(twin)
    /\ len(vec) = len(twin)

====
